---- MODULE Spec2Model ----
(***************************************************************************)
(* A model of the scrolling pager of pcsv (src/src/pager.rs).              *)
(*                                                                         *)
(*   PagerState  the page/row/viewport arithmetic (pager.rs 14-113)        *)
(*   Pager::run  the terminal session: raw mode, alternate screen, the     *)
(*               input thread, the channel and the main event loop         *)
(*               (pager.rs 133-264)                                        *)
(*                                                                         *)
(* Two specifications share the definitions:                               *)
(*   Spec     calls the public operations of PagerState directly, with     *)
(*            every argument a machine word can hold, and applies the      *)
(*            state update of the Event::Resize arm;                       *)
(*   RunSpec  runs Pager::run: main thread, input thread, channel.         *)
(*                                                                         *)
(* usize is scaled down to WordBits bits and u16 (the terminal height) to  *)
(* 0..MaxHeight.  A Vec never holds more than isize::MAX bytes, so the     *)
(* number of content lines plus a u16 always fits a usize; the bounds      *)
(* keep that relation: MaxRows + MaxHeight <= USIZE_MAX.                   *)
(***************************************************************************)
EXTENDS Integers, Sequences, FiniteSets, TLC

\* ------------------------------------------------------------------ bounds
\* Width of the scaled-down usize, in bits.
WordBits == 4
\* Largest number of content lines (total_rows).
MaxRows == 6
\* Largest terminal height (the scaled-down u16).
MaxHeight == 3
\* Largest number of content lines of a session of Pager::run.
RunRows == 3
\* Largest number of events waiting in the channel.
MaxQueue == 1
\* Number of events the input thread reads in a session whose events are
\* recorded (FifoSpec).
MaxReads == 3

RECURSIVE Pow2(_)
Pow2(n) == IF n = 0 THEN 1 ELSE 2 * Pow2(n - 1)

\* usize::MAX of the scaled-down word.
USIZE_MAX == Pow2(WordBits) - 1
Word == 0..USIZE_MAX
Heights == 0..MaxHeight
\* terminal_width takes part in no computation: two values stand for all.
Widths == {80, 120}

VARIABLES
  state,            \* Pager.state : PagerState
  panicked,         \* the thread that owns the PagerState has panicked
  overflow_checks,  \* build profile: TRUE = overflow panics (debug), FALSE = wraps (release)
  last_call,        \* the PagerState operation called last, with its argument
  header,           \* Pager.header is Some(_)
  config,           \* Pager.config : PagerConfig
  main_pc,          \* position of the main thread in Pager::run
  run_result,       \* what Pager::run returned
  raw_mode,         \* terminal: raw mode is enabled
  alt_screen,       \* terminal: the alternate screen is entered
  reader,           \* position of the input thread
  chan,             \* events sent on the channel and not yet received
  rendered,         \* the content lines the last render drew
  read_failed,      \* event::read() has failed in the input thread
  read_log,         \* observer: the events the input thread read and sent, in order
  handled_log,      \* observer: the events the main loop received, in order
  log_limit,        \* observer: 0 = records nothing; n > 0 = the session reads
                    \* n events and all are recorded
  drawn             \* observer: the content lines drawn by the renders so far
                    \* (recorded by DrawingRender only)

vars == <<state, panicked, overflow_checks, last_call, header, config, main_pc,
          run_result, raw_mode, alt_screen, reader, chan, rendered, read_failed,
          read_log, handled_log, log_limit, drawn>>

obsVars == <<read_log, handled_log, log_limit, drawn>>

runVars == <<header, config, main_pc, run_result, raw_mode, alt_screen, reader,
             chan, rendered, read_failed, read_log, handled_log, log_limit,
             drawn>>

\* ------------------------------------------------------- integer arithmetic
Min(a, b) == IF a <= b THEN a ELSE b
Max(a, b) == IF a >= b THEN a ELSE b

\* usize::saturating_sub
saturating_sub(a, b) == IF a >= b THEN a - b ELSE 0

\* An unchecked usize +, * or - whose mathematical result is x: it overflows
\* when x leaves the word; a build without overflow checks keeps x mod 2^w.
Overflows(x) == x < 0 \/ x > USIZE_MAX
Wrapped(x) == x % (USIZE_MAX + 1)

\* The outcome of a PagerState operation: the state it leaves, and whether it
\* panicked on the way.
Ok(s) == [st |-> s, panic |-> FALSE]
Panic(s) == [st |-> s, panic |-> TRUE]

\* ------------------------------------------------------------- PagerState
\* Mutation of PagerState::new: the page count rounds down.
PagerState_new_floor(total_rows, terminal_width, terminal_height) ==
  [current_page |-> 0,
   total_pages |-> IF terminal_height > 0 THEN total_rows \div terminal_height ELSE 1,
   rows_per_page |-> terminal_height,
   total_rows |-> total_rows,
   current_row |-> 0,
   terminal_height |-> terminal_height,
   terminal_width |-> terminal_width]

\* PagerState::new, given what terminal::size() returned.
PagerState_new(total_rows, terminal_width, terminal_height) ==
  LET rows_per_page == terminal_height
      total_pages == IF rows_per_page > 0
                       THEN Wrapped(Wrapped(total_rows + rows_per_page) - 1) \div rows_per_page
                       ELSE 1
  IN [current_page |-> 0,
      total_pages |-> total_pages,
      rows_per_page |-> rows_per_page,
      total_rows |-> total_rows,
      current_row |-> 0,
      terminal_height |-> terminal_height,
      terminal_width |-> terminal_width]

go_to_page(s, page) ==
  LET cp == Min(page, saturating_sub(s.total_pages, 1))
      s1 == [s EXCEPT !.current_page = cp]
      prod == cp * s.rows_per_page
  IN IF Overflows(prod) /\ overflow_checks
       THEN Panic(s1)
       ELSE Ok([s1 EXCEPT !.current_row = Wrapped(prod)])

\* Mutation of next_page: go_to_page is called without the last-page test.
next_page_unguarded(s) == go_to_page(s, s.current_page + 1)

next_page(s) ==
  IF s.current_page < saturating_sub(s.total_pages, 1)
    THEN go_to_page(s, s.current_page + 1)
    ELSE Ok(s)

prev_page(s) ==
  IF s.current_page > 0
    THEN go_to_page(s, saturating_sub(s.current_page, 1))
    ELSE Ok(s)

next_row(s) ==
  IF s.current_row < saturating_sub(s.total_rows, 1)
    THEN LET s1 == [s EXCEPT !.current_row = s.current_row + 1]
         IN IF s.rows_per_page = 0
              THEN Panic(s1)
              ELSE Ok([s1 EXCEPT !.current_page = s1.current_row \div s.rows_per_page])
    ELSE Ok(s)

prev_row(s) ==
  IF s.current_row > 0
    THEN LET s1 == [s EXCEPT !.current_row = saturating_sub(s.current_row, 1)]
         IN IF s.rows_per_page = 0
              THEN Panic(s1)
              ELSE Ok([s1 EXCEPT !.current_page = s1.current_row \div s.rows_per_page])
    ELSE Ok(s)

go_to_first(s) == go_to_page(s, 0)

\* Mutation of go_to_last: the target is taken relative to the current page.
go_to_last_relative(s) == go_to_page(s, s.current_page + 1)

go_to_last(s) == go_to_page(s, saturating_sub(s.total_pages, 1))

\* Mutation of scroll_down: the sum is not clamped to the last row.
scroll_down_unclamped(s, lines) ==
  LET s1 == [s EXCEPT !.current_row = Wrapped(s.current_row + lines)]
  IN IF s.rows_per_page = 0
       THEN [st |-> s1, panic |-> TRUE]
       ELSE [st |-> [s1 EXCEPT !.current_page = s1.current_row \div s.rows_per_page],
             panic |-> FALSE]

scroll_down(s, lines) ==
  LET sum == s.current_row + lines
  IN IF Overflows(sum) /\ overflow_checks
       THEN Panic(s)
       ELSE LET s1 == [s EXCEPT !.current_row =
                         Min(Wrapped(sum), saturating_sub(s.total_rows, 1))]
            IN IF s.rows_per_page = 0
                 THEN Panic(s1)
                 ELSE Ok([s1 EXCEPT !.current_page = s1.current_row \div s.rows_per_page])

scroll_up(s, lines) ==
  LET s1 == [s EXCEPT !.current_row = saturating_sub(s.current_row, lines)]
  IN IF s.rows_per_page = 0
       THEN Panic(s1)
       ELSE Ok([s1 EXCEPT !.current_page = s1.current_row \div s.rows_per_page])

get_viewport_start(s) == s.current_row

\* Mutation of get_viewport_end: the end is not cut at total_rows.
get_viewport_end_uncut(s) == Wrapped(s.current_row + s.rows_per_page)

get_viewport_end(s) == Min(Wrapped(s.current_row + s.rows_per_page), s.total_rows)

\* Mutation of the resize arm: the new page size is stored, go_to_page is not
\* called.
resize_without_go_to_page(s, width, height) ==
  [st |-> [s EXCEPT !.terminal_width = width,
                    !.terminal_height = height,
                    !.rows_per_page = height,
                    !.total_pages = IF height > 0
                                      THEN (s.total_rows + height - 1) \div height
                                      ELSE 1],
   panic |-> FALSE]

\* The PagerState update of the Event::Resize arm of Pager::run.
resize(s, width, height) ==
  LET s1 == [s EXCEPT !.terminal_width = width,
                      !.terminal_height = height,
                      !.rows_per_page = height]
      sum == s1.total_rows + s1.rows_per_page
  IN IF s1.rows_per_page > 0 /\ Overflows(sum) /\ overflow_checks
       THEN Panic(s1)
       ELSE LET tp == IF s1.rows_per_page > 0
                        THEN Wrapped(Wrapped(sum) - 1) \div s1.rows_per_page
                        ELSE 1
                s2 == [s1 EXCEPT !.total_pages = tp]
            IN go_to_page(s2, Min(s2.current_page, saturating_sub(tp, 1)))

\* ------------------------------------------------------------- Pager::new
\* PagerConfig as ColorScheme::default builds it (config.rs 42-45).
DefaultConfig == [scroll_single_line |-> 1, scroll_multi_line |-> 10]
\* The configurations a session is started with: the default, and one a
\* config file sets.
Configs == {DefaultConfig, [scroll_single_line |-> 2, scroll_multi_line |-> 3]}

NoCall == [op |-> "new", arg |-> 0]

\* Pager::new: content of total_rows lines, the terminal size as queried.
PagerNew(pc0, max_rows) ==
  /\ \E total_rows \in 0..max_rows, w \in Widths, h \in Heights :
       state = PagerState_new(total_rows, w, h)
  /\ panicked = FALSE
  /\ overflow_checks \in BOOLEAN
  /\ last_call = NoCall
  /\ header \in BOOLEAN
  /\ config \in Configs
  /\ main_pc = pc0
  /\ run_result = "none"
  /\ raw_mode = FALSE
  /\ alt_screen = FALSE
  /\ reader = "unspawned"
  /\ chan = <<>>
  /\ rendered = {}
  /\ read_failed = FALSE
  /\ read_log = <<>>
  /\ drawn = {}
  /\ handled_log = <<>>

\* ------------------------------------------- the operations, called directly
Call(op, arg, r) ==
  /\ main_pc = "api"
  /\ ~panicked
  /\ state' = r.st
  /\ panicked' = r.panic
  /\ last_call' = [op |-> op, arg |-> arg]
  /\ UNCHANGED overflow_checks
  /\ UNCHANGED runVars

GoToPage == \E page \in Word : Call("go_to_page", page, go_to_page(state, page))
NextPage == Call("next_page", 0, next_page(state))
PrevPage == Call("prev_page", 0, prev_page(state))
NextRow == Call("next_row", 0, next_row(state))
PrevRow == Call("prev_row", 0, prev_row(state))
GoToFirst == Call("go_to_first", 0, go_to_first(state))
GoToLast == Call("go_to_last", 0, go_to_last(state))
ScrollDown == \E lines \in Word : Call("scroll_down", lines, scroll_down(state, lines))
ScrollUp == \E lines \in Word : Call("scroll_up", lines, scroll_up(state, lines))
Resize == \E w \in Widths, h \in Heights : Call("resize", h, resize(state, w, h))

Init == PagerNew("api", MaxRows) /\ log_limit = 0

Next ==
  \/ GoToPage
  \/ NextPage
  \/ PrevPage
  \/ NextRow
  \/ PrevRow
  \/ GoToFirst
  \/ GoToLast
  \/ ScrollDown
  \/ ScrollUp
  \/ Resize

Spec == Init /\ [][Next]_vars

\* ------------------------------------------------------------- Pager::run
\* crossterm events, as the match arms of run and handle_key_event tell them
\* apart: "x" is any key code without a binding, "other" any event that is
\* neither a key nor a resize.
KeyCodes == {"q", "Esc", "Space", "PageDown", "b", "PageUp", "j", "Down", "J",
             "k", "Up", "K", "d", "u", "g", "G", "Home", "End", "/", "n", "N", "x"}

KeyEvent(code, ctrl) ==
  [kind |-> "key", code |-> code, ctrl |-> ctrl, width |-> 0, height |-> 0]
ResizeEvent(w, h) ==
  [kind |-> "resize", code |-> "", ctrl |-> FALSE, width |-> w, height |-> h]
OtherEvent ==
  [kind |-> "other", code |-> "", ctrl |-> FALSE, width |-> 0, height |-> 0]

Events ==
  {KeyEvent(c, FALSE) : c \in KeyCodes} \cup {KeyEvent("g", TRUE)}
    \cup {ResizeEvent(w, h) : w \in Widths, h \in Heights}
    \cup {OtherEvent}

\* Mutation of key_call: the reserved next-match key scrolls one line down.
key_call_n_scrolls(s, cfg, code) ==
  CASE code \in {"Space", "PageDown"} -> [op |-> "scroll_down", arg |-> s.rows_per_page]
    [] code \in {"b", "PageUp"} -> [op |-> "scroll_up", arg |-> s.rows_per_page]
    [] code \in {"j", "Down", "n"} -> [op |-> "scroll_down", arg |-> cfg.scroll_single_line]
    [] code = "J" -> [op |-> "scroll_down", arg |-> cfg.scroll_multi_line]
    [] code \in {"k", "Up"} -> [op |-> "scroll_up", arg |-> cfg.scroll_single_line]
    [] code = "K" -> [op |-> "scroll_up", arg |-> cfg.scroll_multi_line]
    [] code = "d" -> [op |-> "scroll_down", arg |-> s.rows_per_page \div 2]
    [] code = "u" -> [op |-> "scroll_up", arg |-> s.rows_per_page \div 2]
    [] code \in {"g", "Home"} -> [op |-> "go_to_first", arg |-> 0]
    [] code \in {"G", "End"} -> [op |-> "go_to_last", arg |-> 0]
    [] OTHER -> [op |-> "none", arg |-> 0]

\* The PagerState call handle_key_event makes for a key that does not quit.
key_call(s, cfg, code) ==
  CASE code \in {"Space", "PageDown"} -> [op |-> "scroll_down", arg |-> s.rows_per_page]
    [] code \in {"b", "PageUp"} -> [op |-> "scroll_up", arg |-> s.rows_per_page]
    [] code \in {"j", "Down"} -> [op |-> "scroll_down", arg |-> cfg.scroll_single_line]
    [] code = "J" -> [op |-> "scroll_down", arg |-> cfg.scroll_multi_line]
    [] code \in {"k", "Up"} -> [op |-> "scroll_up", arg |-> cfg.scroll_single_line]
    [] code = "K" -> [op |-> "scroll_up", arg |-> cfg.scroll_multi_line]
    [] code = "d" -> [op |-> "scroll_down", arg |-> s.rows_per_page \div 2]
    [] code = "u" -> [op |-> "scroll_up", arg |-> s.rows_per_page \div 2]
    [] code \in {"g", "Home"} -> [op |-> "go_to_first", arg |-> 0]
    [] code \in {"G", "End"} -> [op |-> "go_to_last", arg |-> 0]
    [] OTHER -> [op |-> "none", arg |-> 0]

apply_call(s, c) ==
  CASE c.op = "scroll_down" -> scroll_down(s, c.arg)
    [] c.op = "scroll_up" -> scroll_up(s, c.arg)
    [] c.op = "go_to_first" -> go_to_first(s)
    [] c.op = "go_to_last" -> go_to_last(s)
    [] OTHER -> Ok(s)

\* Mutation of handle_key_event: Escape is not a quit key.
handle_key_event_q_only(s, cfg, code) ==
  IF code = "q"
    THEN [quit |-> TRUE, st |-> s, panic |-> FALSE]
    ELSE [quit |-> FALSE, st |-> s, panic |-> FALSE]

\* handle_key_event: Ok(true) for a quit key, else the call made and Ok(false).
handle_key_event(s, cfg, code) ==
  IF code \in {"q", "Esc"}
    THEN [quit |-> TRUE, st |-> s, panic |-> FALSE]
    ELSE LET r == apply_call(s, key_call(s, cfg, code))
         IN [quit |-> FALSE, st |-> r.st, panic |-> r.panic]

\* The content lines render draws: the viewport, cut at the terminal height,
\* below the header line when there is one.
render_lines(s, hdr) ==
  LET start == get_viewport_start(s)
      end == get_viewport_end(s)
      y0 == IF hdr THEN 1 ELSE 0
      n == Min(Min(saturating_sub(end, start), saturating_sub(s.total_rows, start)),
               saturating_sub(s.terminal_height, y0))
  IN {i \in 0..MaxRows : start <= i /\ i < start + n}

\* The receiving end of the channel exists: from its creation in run until
\* run returns or unwinds.
rx_alive ==
  /\ main_pc \in {"initial_render", "recv", "render", "leave_alt", "disable_raw"}
  /\ ~panicked

\* run returns: its locals, the receiver among them, are dropped.
Return(result) ==
  /\ main_pc' = "returned"
  /\ run_result' = result
  /\ chan' = <<>>

\* terminal::enable_raw_mode()?
EnableRawMode ==
  /\ main_pc = "enable_raw"
  /\ \E ok \in BOOLEAN :
       IF ok
         THEN raw_mode' = TRUE /\ main_pc' = "enter_alt" /\ UNCHANGED <<run_result, chan>>
         ELSE Return("enable_raw_failed") /\ UNCHANGED raw_mode
  /\ UNCHANGED <<state, panicked, overflow_checks, last_call, header, config,
                 alt_screen, reader, rendered, read_failed>>
  /\ UNCHANGED obsVars

\* execute!(stdout(), terminal::EnterAlternateScreen)?
EnterAlternateScreen ==
  /\ main_pc = "enter_alt"
  /\ \E ok \in BOOLEAN :
       IF ok
         THEN alt_screen' = TRUE /\ main_pc' = "spawn" /\ UNCHANGED <<run_result, chan>>
         ELSE Return("enter_alt_failed") /\ UNCHANGED alt_screen
  /\ UNCHANGED <<state, panicked, overflow_checks, last_call, header, config,
                 raw_mode, reader, rendered, read_failed>>
  /\ UNCHANGED obsVars

\* mpsc::channel() and thread::spawn of the input thread.
Spawn ==
  /\ main_pc = "spawn"
  /\ main_pc' = "initial_render"
  /\ reader' = "reading"
  /\ UNCHANGED <<state, panicked, overflow_checks, last_call, header, config,
                 run_result, raw_mode, alt_screen, chan, rendered, read_failed>>
  /\ UNCHANGED obsVars

\* self.render()? : the initial render and the render after an event.
RenderStep ==
  /\ main_pc \in {"initial_render", "render"}
  /\ ~panicked
  /\ \E ok \in BOOLEAN :
       IF ok
         THEN /\ rendered' = render_lines(state, header)
              /\ main_pc' = "recv"
              /\ UNCHANGED <<run_result, chan>>
         ELSE Return("render_failed") /\ UNCHANGED rendered
  /\ UNCHANGED <<state, panicked, overflow_checks, last_call, header, config,
                 raw_mode, alt_screen, reader, read_failed>>
  /\ UNCHANGED <<read_log, handled_log, log_limit>>

Render ==
  /\ RenderStep
  /\ UNCHANGED drawn

\* The same step, with the observer recording the lines it drew.
DrawingRender ==
  /\ RenderStep
  /\ drawn' = IF main_pc' = "recv" THEN drawn \cup rendered' ELSE drawn

\* The observer records the event the main loop has just received.
Handled(e) ==
  /\ handled_log' = IF log_limit = 0 THEN handled_log ELSE Append(handled_log, e)
  /\ UNCHANGED <<read_log, log_limit, drawn>>

\* rx.recv_timeout returns Ok(Event::Key(_)).
RecvKey ==
  /\ main_pc = "recv"
  /\ ~panicked
  /\ chan # <<>>
  /\ Head(chan).kind = "key"
  /\ LET code == Head(chan).code
         r == handle_key_event(state, config, code)
     IN /\ chan' = Tail(chan)
        /\ state' = r.st
        /\ panicked' = r.panic
        /\ main_pc' = IF r.quit THEN "leave_alt"
                      ELSE IF r.panic THEN "recv" ELSE "render"
  /\ UNCHANGED <<overflow_checks, last_call, header, config, run_result, raw_mode,
                 alt_screen, reader, rendered, read_failed>>
  /\ Handled(Head(chan))

\* rx.recv_timeout returns Ok(Event::Resize(width, height)).
RecvResize ==
  /\ main_pc = "recv"
  /\ ~panicked
  /\ chan # <<>>
  /\ Head(chan).kind = "resize"
  /\ LET r == resize(state, Head(chan).width, Head(chan).height)
     IN /\ chan' = Tail(chan)
        /\ state' = r.st
        /\ panicked' = r.panic
        /\ main_pc' = IF r.panic THEN "recv" ELSE "render"
  /\ UNCHANGED <<overflow_checks, last_call, header, config, run_result, raw_mode,
                 alt_screen, reader, rendered, read_failed>>
  /\ Handled(Head(chan))

\* rx.recv_timeout returns Ok(_) for any other event.
\* Variant of the Ok(_) arm that empties the channel instead of taking one event.
RecvOther_drains ==
  /\ main_pc = "recv"
  /\ ~panicked
  /\ chan # <<>>
  /\ Head(chan).kind = "other"
  /\ chan' = <<>>
  /\ UNCHANGED <<state, panicked, overflow_checks, last_call, header, config, main_pc,
                 run_result, raw_mode, alt_screen, reader, rendered, read_failed>>
  /\ Handled(Head(chan))

RecvOther ==
  /\ main_pc = "recv"
  /\ ~panicked
  /\ chan # <<>>
  /\ Head(chan).kind = "other"
  /\ chan' = Tail(chan)
  /\ UNCHANGED <<state, panicked, overflow_checks, last_call, header, config, main_pc,
                 run_result, raw_mode, alt_screen, reader, rendered, read_failed>>
  /\ Handled(Head(chan))

\* rx.recv_timeout returns Err(_): nothing arrived within 100 ms.  (run keeps
\* the sender tx until it returns, so the channel is never disconnected.)
RecvTimeout ==
  /\ main_pc = "recv"
  /\ ~panicked
  /\ chan = <<>>
  /\ UNCHANGED vars

\* execute!(stdout(), terminal::LeaveAlternateScreen)?
LeaveAlternateScreen ==
  /\ main_pc = "leave_alt"
  /\ \E ok \in BOOLEAN :
       IF ok
         THEN alt_screen' = FALSE /\ main_pc' = "disable_raw" /\ UNCHANGED <<run_result, chan>>
         ELSE Return("leave_alt_failed") /\ UNCHANGED alt_screen
  /\ UNCHANGED <<state, panicked, overflow_checks, last_call, header, config,
                 raw_mode, reader, rendered, read_failed>>
  /\ UNCHANGED obsVars

\* terminal::disable_raw_mode()?; Ok(())
DisableRawMode ==
  /\ main_pc = "disable_raw"
  /\ \E ok \in BOOLEAN :
       IF ok
         THEN raw_mode' = FALSE /\ Return("ok")
         ELSE Return("disable_raw_failed") /\ UNCHANGED raw_mode
  /\ UNCHANGED <<state, panicked, overflow_checks, last_call, header, config,
                 alt_screen, reader, rendered, read_failed>>
  /\ UNCHANGED obsVars

\* Variant of the input thread whose send succeeds whether or not a receiver
\* is left.
ReaderRead_send_never_fails(events, cap) ==
  /\ reader = "reading"
  /\ \E e \in events :
       /\ Len(chan) < cap
       /\ log_limit = 0 \/ Len(read_log) < log_limit
       /\ chan' = Append(chan, e)
       /\ read_log' = IF log_limit = 0 THEN read_log ELSE Append(read_log, e)
       /\ UNCHANGED reader
  /\ UNCHANGED <<state, panicked, overflow_checks, last_call, header, config, main_pc,
                 run_result, raw_mode, alt_screen, rendered, read_failed>>
  /\ UNCHANGED <<handled_log, log_limit, drawn>>

\* The input thread: event::read() returns Ok(event) and tx_clone.send(event)
\* queues it, or fails because the receiver is gone, which ends the loop.
ReaderRead(events, cap) ==
  /\ reader = "reading"
  /\ \E e \in events :
       IF rx_alive
         THEN /\ Len(chan) < cap
              /\ log_limit = 0 \/ Len(read_log) < log_limit
              /\ chan' = Append(chan, e)
              /\ read_log' = IF log_limit = 0 THEN read_log ELSE Append(read_log, e)
              /\ UNCHANGED reader
         ELSE /\ reader' = "exited"
              /\ UNCHANGED <<chan, read_log>>
  /\ UNCHANGED <<state, panicked, overflow_checks, last_call, header, config, main_pc,
                 run_result, raw_mode, alt_screen, rendered, read_failed>>
  /\ UNCHANGED <<handled_log, log_limit, drawn>>

\* The input thread: event::read() returns Err(_); the loop goes round again.
ReaderReadError ==
  /\ reader = "reading"
  /\ read_failed' = TRUE
  /\ UNCHANGED <<state, panicked, overflow_checks, last_call, header, config, main_pc,
                 run_result, raw_mode, alt_screen, reader, chan, rendered>>
  /\ UNCHANGED obsVars

RunInit == PagerNew("enable_raw", RunRows) /\ log_limit = 0

RunNext ==
  \/ EnableRawMode
  \/ EnterAlternateScreen
  \/ Spawn
  \/ Render
  \/ RecvKey
  \/ RecvResize
  \/ RecvOther
  \/ RecvTimeout
  \/ LeaveAlternateScreen
  \/ DisableRawMode
  \/ ReaderRead(Events, MaxQueue)
  \/ ReaderReadError

RunSpec == RunInit /\ [][RunNext]_vars

\* A session whose events are recorded: the input thread reads MaxReads events
\* (a scroll key, a quit key, a resize, an ignored event), and the channel is
\* unbounded (mpsc::channel()), so it can hold all of them.
FifoEvents ==
  {KeyEvent("j", FALSE), KeyEvent("q", FALSE), ResizeEvent(80, 2), OtherEvent}

FifoInit == PagerNew("enable_raw", RunRows) /\ log_limit = MaxReads

FifoNext ==
  \/ EnableRawMode
  \/ EnterAlternateScreen
  \/ Spawn
  \/ Render
  \/ RecvKey
  \/ RecvResize
  \/ RecvOther
  \/ RecvTimeout
  \/ LeaveAlternateScreen
  \/ DisableRawMode
  \/ ReaderRead(FifoEvents, MaxReads)
  \/ ReaderReadError

FifoSpec == FifoInit /\ [][FifoNext]_vars

\* A paging session: the terminal has at least two lines, the user presses
\* only page-down keys, and the observer records every line drawn.
PageDownEvents ==
  {KeyEvent("Space", FALSE), KeyEvent("PageDown", FALSE)}

PagingInit ==
  /\ PagerNew("enable_raw", MaxRows)
  /\ log_limit = 0
  /\ state.terminal_height >= 2

PagingNext ==
  \/ EnableRawMode
  \/ EnterAlternateScreen
  \/ Spawn
  \/ DrawingRender
  \/ RecvKey
  \/ RecvTimeout
  \/ ReaderRead(PageDownEvents, MaxQueue)
  \/ ReaderReadError

PagingSpec == PagingInit /\ [][PagingNext]_vars

\* A session under fair scheduling in which self.render() never fails.  The
\* main thread is never suspended for ever: each of its steps is bounded
\* (recv_timeout returns within 100 ms), so a step of it that stays possible is
\* eventually taken.  Nothing obliges the user to type, so the input thread's
\* reads carry no fairness.
RenderOk ==
  /\ Render
  /\ main_pc' = "recv"

MainStep ==
  \/ EnableRawMode
  \/ EnterAlternateScreen
  \/ Spawn
  \/ RenderOk
  \/ RecvKey
  \/ RecvResize
  \/ RecvOther
  \/ LeaveAlternateScreen
  \/ DisableRawMode

LiveNext ==
  \/ MainStep
  \/ RecvTimeout
  \/ ReaderRead(Events, MaxQueue)
  \/ ReaderReadError

LiveSpec == RunInit /\ [][LiveNext]_vars /\ WF_vars(MainStep)

\* ================================================================= claims
\* The smallest q with q * b >= a: ceil(a / b) for b >= 1.
CeilDiv(a, b) == CHOOSE q \in 0..a : q * b >= a /\ (q = 0 \/ (q - 1) * b < a)

\* C1: in every state reachable from construction by any sequence of the
\* navigation operations (any step size) and resizes, current_row is a valid
\* row index: 0 <= current_row < total_rows when total_rows > 0, and
\* current_row = 0 when total_rows = 0.
C1_CurrentRowInRange ==
  /\ state.total_rows > 0 => (0 <= state.current_row /\ state.current_row < state.total_rows)
  /\ state.total_rows = 0 => state.current_row = 0

\* C1 witness: a scroll_down by more rows than there are has been clamped to
\* the last row.
C1_Witness ==
  /\ last_call.op = "scroll_down"
  /\ last_call.arg > state.total_rows
  /\ state.total_rows > 1
  /\ state.current_row = state.total_rows - 1
  /\ ~panicked

\* C2 (as claimed): a resize to a height h >= 1 while current_row is a valid
\* row leaves current_row unchanged and sets current_page to current_row / h.
C2_ResizeKeepsPosition ==
  [][(/\ last_call'.op = "resize"
      /\ last_call'.arg >= 1
      /\ state.current_row < state.total_rows)
     => (/\ ~panicked'
         /\ state'.current_row = state.current_row
         /\ state'.current_page = state.current_row \div last_call'.arg)]_vars

\* C3 (as claimed): whenever run has returned, on success or after a failure
\* entering the alternate screen, rendering, or leaving the alternate screen,
\* raw mode is disabled and the alternate screen is left.
C3_TerminalRestored ==
  (/\ main_pc = "returned"
   /\ run_result \in {"ok", "enter_alt_failed", "render_failed", "leave_alt_failed"})
  => (~raw_mode /\ ~alt_screen)

\* C4 (as claimed): total_pages >= 1 in every reachable PagerState, at
\* construction and after every resize, also when total_rows = 0.
C4_TotalPagesAtLeastOne == state.total_pages >= 1

\* C5 (as claimed): while rows_per_page = 0, total_pages = 1 and no operation
\* has panicked dividing by rows_per_page.
C5_ZeroHeightNoPanic ==
  state.rows_per_page = 0 => (state.total_pages = 1 /\ ~panicked)

\* C6: whenever rows_per_page >= 1, after every navigation operation and
\* every resize, current_page = current_row / rows_per_page (integer division).
C6_PageOfRow ==
  state.rows_per_page >= 1 => state.current_page = state.current_row \div state.rows_per_page

\* C6 witness: a resize to a height >= 1 has left the position on a later page.
C6_Witness ==
  /\ last_call.op = "resize"
  /\ state.rows_per_page >= 1
  /\ state.current_page >= 1
  /\ state.current_row >= 1
  /\ ~panicked

\* C7: whenever rows_per_page >= 1, at construction and after every resize,
\* total_pages = ceil(total_rows / rows_per_page).
C7_TotalPagesIsCeil ==
  state.rows_per_page >= 1 => state.total_pages = CeilDiv(state.total_rows, state.rows_per_page)

\* C7 witness: a resize has set a page size that does not divide total_rows,
\* and the page count was rounded up.
C7_Witness ==
  /\ last_call.op = "resize"
  /\ state.rows_per_page >= 2
  /\ state.total_rows % state.rows_per_page # 0
  /\ state.total_pages = (state.total_rows \div state.rows_per_page) + 1
  /\ state.total_pages >= 2

\* C8 (as claimed): with rows to show and a page size >= 1, scroll_down(lines)
\* and scroll_up(lines) saturate for every word value of lines: current_row
\* becomes min(current_row + lines, total_rows - 1), respectively
\* max(current_row - lines, 0), without overflow, and current_page is
\* recomputed from it.
C8_ScrollSaturates ==
  [][(/\ last_call'.op \in {"scroll_down", "scroll_up"}
      /\ state.rows_per_page >= 1
      /\ state.total_rows >= 1)
     => (/\ ~panicked'
         /\ state'.current_row =
              IF last_call'.op = "scroll_down"
                THEN Min(state.current_row + last_call'.arg, state.total_rows - 1)
                ELSE Max(state.current_row - last_call'.arg, 0)
         /\ state'.current_page = state'.current_row \div state.rows_per_page)]_vars

\* C9 (as claimed): go_to_page(p), for any word p, leaves
\* current_page = min(p, total_pages - 1), inside [0, total_pages - 1], and
\* current_row = current_page * rows_per_page.
C9_GoToPageClamps ==
  [][last_call'.op = "go_to_page"
     => (/\ ~panicked'
         /\ state'.current_page = Min(last_call'.arg, state.total_pages - 1)
         /\ 0 <= state'.current_page
         /\ state'.current_page <= state.total_pages - 1
         /\ state'.current_row = state'.current_page * state.rows_per_page)]_vars

\* C10: in every reachable PagerState the viewport starts at current_row, ends
\* at min(current_row + rows_per_page, total_rows), is no longer than
\* rows_per_page and does not pass total_rows (so that end - start, as render
\* computes it, is a valid count).
C10_ViewportBounds ==
  /\ get_viewport_start(state) = state.current_row
  /\ get_viewport_end(state) = Min(state.current_row + state.rows_per_page, state.total_rows)
  /\ get_viewport_start(state) <= get_viewport_end(state)
  /\ get_viewport_end(state) - get_viewport_start(state) <= state.rows_per_page
  /\ get_viewport_end(state) <= state.total_rows

\* C10 witness: after a navigation the viewport is cut short by the end of the
\* content.
C10_Witness ==
  /\ last_call.op \in {"scroll_down", "go_to_page", "next_row"}
  /\ state.current_row >= 1
  /\ state.current_row + state.rows_per_page > state.total_rows
  /\ get_viewport_end(state) = state.total_rows
  /\ get_viewport_end(state) - get_viewport_start(state) >= 1
  /\ get_viewport_end(state) - get_viewport_start(state) < state.rows_per_page

\* The navigation operations of PagerState.
NavOps == {"go_to_page", "next_page", "prev_page", "next_row", "prev_row",
           "go_to_first", "go_to_last", "scroll_down", "scroll_up"}

\* C11 (as claimed): while total_rows = 0 every navigation operation is a
\* no-op: it returns normally and leaves the whole PagerState unchanged, and
\* the viewport is empty (start = end = 0).
C11_EmptyContentNoOp ==
  [][(state.total_rows = 0 /\ last_call'.op \in NavOps)
     => (/\ ~panicked'
         /\ state' = state
         /\ get_viewport_start(state') = 0
         /\ get_viewport_end(state') = 0)]_vars

\* C12: from every reachable PagerState, go_to_first called twice leaves the
\* state go_to_first called once leaves, and the same for go_to_last.
C12_FirstLastIdempotent ==
  LET f == go_to_first(state)
      l == go_to_last(state)
  IN /\ ~f.panic /\ go_to_first(f.st) = f
     /\ ~l.panic /\ go_to_last(l.st) = l

\* C12 witness: go_to_last has moved to the last of three pages (5 rows, 2 per
\* page: page 2, row 4), where calling it again changes nothing.
C12_Witness ==
  /\ last_call.op = "go_to_last"
  /\ state.total_rows = 5
  /\ state.rows_per_page = 2
  /\ state.current_page = 2
  /\ state.current_row = 4
  /\ go_to_last(state).st = state

\* C13: next_page moves exactly one page forward (current_page + 1, current_row
\* = current_page * rows_per_page) unless the current page is the last one,
\* where it leaves the state unchanged; prev_page moves exactly one page back
\* unless on page 0, where it leaves the state unchanged.
C13_PageStep ==
  [][/\ (last_call'.op = "next_page") =>
          (/\ ~panicked'
           /\ state' = IF state.current_page < state.total_pages - 1
                         THEN [state EXCEPT
                                 !.current_page = state.current_page + 1,
                                 !.current_row = (state.current_page + 1) * state.rows_per_page]
                         ELSE state)
     /\ (last_call'.op = "prev_page") =>
          (/\ ~panicked'
           /\ state' = IF state.current_page > 0
                         THEN [state EXCEPT
                                 !.current_page = state.current_page - 1,
                                 !.current_row = (state.current_page - 1) * state.rows_per_page]
                         ELSE state)]_vars

\* C13 witness: next_page has moved to the start of a page that is neither
\* the first nor the last.
C13_Witness ==
  /\ last_call.op = "next_page"
  /\ state.rows_per_page >= 2
  /\ state.current_page >= 1
  /\ state.current_page < state.total_pages - 1
  /\ state.current_row = state.current_page * state.rows_per_page
  /\ ~panicked

\* ------------------------------------------------- claims about Pager::run
\* The main loop is Running at these positions, and has left the loop
\* (Stopped, or returned with an error) at those.
Running == {"initial_render", "recv", "render"}
Stopped == {"leave_alt", "disable_raw", "returned"}

\* This step is the main loop taking the event at the head of the channel.
Dequeued ==
  /\ main_pc = "recv"
  /\ ~panicked
  /\ chan # <<>>
  /\ chan' = Tail(chan)

\* This step is the main loop taking a key event with one of these codes.
KeyDequeued(codes) ==
  /\ Dequeued
  /\ Head(chan).kind = "key"
  /\ Head(chan).code \in codes

\* C14: the main loop leaves Running for Stopped exactly in the step that
\* dequeues a quit key (q or Escape); that step and every later step of run
\* render nothing and leave the PagerState unchanged; no other step (timeout,
\* resize, another key, another event) leaves the loop normally.
C14_QuitOnlyByQuitKey ==
  [][/\ (main_pc \in Running /\ main_pc' = "leave_alt") <=> KeyDequeued({"q", "Esc"})
     /\ KeyDequeued({"q", "Esc"}) => (state' = state /\ rendered' = rendered /\ ~panicked')
     /\ (main_pc \in {"leave_alt", "disable_raw"})
          => (state' = state /\ rendered' = rendered /\ main_pc' \in Stopped)]_vars

\* C14 witness: the loop has been left after the user moved down and quit.
C14_Witness ==
  /\ main_pc = "leave_alt"
  /\ state.current_row >= 1
  /\ rendered # {}
  /\ run_result = "none"

\* The last row, and the effects the binding table names.
LastRow(s) == Max(s.total_rows - 1, 0)
OnlyPosition ==
  state' = [state EXCEPT !.current_row = state'.current_row,
                         !.current_page = state'.current_page]
ScrolledDown(by) ==
  /\ ~panicked'
  /\ OnlyPosition
  /\ state'.current_row = Min(state.current_row + by, LastRow(state))
ScrolledUp(by) ==
  /\ ~panicked'
  /\ OnlyPosition
  /\ state'.current_row = Max(state.current_row - by, 0)
JumpedToPage(page) ==
  /\ ~panicked'
  /\ OnlyPosition
  /\ state'.current_page = page
  /\ state'.current_row = page * state.rows_per_page

\* C15 (as claimed): each bound key, when the main loop handles it, changes
\* the PagerState as the binding table says.
C15_KeyBindings ==
  [][/\ KeyDequeued({"Space", "PageDown"}) => ScrolledDown(state.rows_per_page)
     /\ KeyDequeued({"b", "PageUp"}) => ScrolledUp(state.rows_per_page)
     /\ KeyDequeued({"j", "Down"}) => ScrolledDown(config.scroll_single_line)
     /\ KeyDequeued({"k", "Up"}) => ScrolledUp(config.scroll_single_line)
     /\ KeyDequeued({"J"}) => ScrolledDown(config.scroll_multi_line)
     /\ KeyDequeued({"K"}) => ScrolledUp(config.scroll_multi_line)
     /\ KeyDequeued({"d"}) => ScrolledDown(state.rows_per_page \div 2)
     /\ KeyDequeued({"u"}) => ScrolledUp(state.rows_per_page \div 2)
     /\ KeyDequeued({"g", "Home"}) => JumpedToPage(0)
     /\ KeyDequeued({"G", "End"}) => JumpedToPage(Max(state.total_pages - 1, 0))]_vars

IsPrefix(s, t) == Len(s) <= Len(t) /\ SubSeq(t, 1, Len(s)) = s

\* C16 (as claimed): every event read while the pager is Running is delivered.
\* At the step in which the main loop leaves Running without an error, every
\* event the input thread has read so far has been received by the main loop.
\* Violated: an event read after a quit key, before the main loop has taken the
\* quit key from the channel, is read while Running and never delivered.
C16_EveryEventDelivered ==
  [][(log_limit > 0 /\ main_pc \in Running /\ main_pc' \notin Running
        /\ run_result' = "none")
       => read_log' = handled_log']_vars

\* C16 (amended): events are delivered to the main loop in FIFO order.  In every
\* interleaving of the input thread and the main loop, the events the main loop
\* has received are a prefix of the events the input thread has read, in the
\* same order and unmodified; and while the receiver is alive the events read
\* are exactly the events received followed by the events still waiting in the
\* channel, so none is duplicated or overtaken, and none is lost except those
\* still waiting when run drops the receiver.
C16_FifoDelivery ==
  log_limit > 0 =>
    /\ IsPrefix(handled_log, read_log)
    /\ rx_alive => read_log = handled_log \o chan

C16_Witness ==
  /\ log_limit > 0
  /\ main_pc \in Running
  /\ ~panicked
  /\ Len(handled_log) >= 1
  /\ Len(chan) >= 2
  /\ chan[1] # chan[2]
  /\ handled_log[1] # chan[1]

QuitQueued ==
  \E i \in 1..Len(chan) : chan[i].kind = "key" /\ chan[i].code \in {"q", "Esc"}

\* C20: the main loop is never permanently stuck.  Under fair scheduling and
\* with rendering that does not fail, the main loop is again and again at its
\* receive step (or run has left the loop), and whenever the input thread has
\* sent a quit key to the running loop, run eventually returns.
C20_LoopProgress ==
  /\ []<>((main_pc = "recv" /\ ~panicked) \/ main_pc \in Stopped)
  /\ (main_pc \in Running /\ ~panicked /\ QuitQueued) ~> (main_pc = "returned")

\* C17 (as claimed): the step in which event::read() fails ends the input
\* thread.
C17_ReadFailureEndsReader ==
  [][(~read_failed /\ read_failed') => reader' = "exited"]_vars

\* C18 (as claimed): once a read has failed and the channel is drained, the
\* session is a timeout-only loop: the main loop stays at its receive step,
\* no event arrives any more and the PagerState does not change.
C18_TimeoutOnlyAfterReadFailure ==
  [][(read_failed /\ main_pc = "recv" /\ chan = <<>> /\ ~panicked)
     => (chan' = <<>> /\ main_pc' = "recv" /\ state' = state /\ ~panicked')]_vars

\* The keys with a navigation binding, and those without an effect: the
\* reserved search keys and any unbound key.
NavKeys == {"Space", "PageDown", "b", "PageUp", "j", "Down", "J", "k", "Up", "K",
            "d", "u", "g", "G", "Home", "End"}
NoEffectKeys == {"/", "n", "N", "x"}

\* C19: the PagerState changes only in a step where the main loop dequeues a
\* resize event or a key with a navigation binding; dequeuing any other event,
\* a reserved search key or an unbound key leaves the whole PagerState
\* unchanged and the pager Running; no step of the input thread changes the
\* PagerState or the main loop's position.
C19_OnlyNavAndResizeChangeState ==
  [][/\ (state' # state)
          => (Dequeued /\ (\/ Head(chan).kind = "resize"
                           \/ (Head(chan).kind = "key" /\ Head(chan).code \in NavKeys)))
     /\ (Dequeued /\ Head(chan).kind = "other")
          => (state' = state /\ ~panicked' /\ main_pc' \in Running)
     /\ KeyDequeued(NoEffectKeys)
          => (state' = state /\ ~panicked' /\ main_pc' \in Running)
     /\ (reader = "reading"
           /\ (reader' # reader \/ read_failed' # read_failed \/ Len(chan') > Len(chan)))
          => (state' = state /\ main_pc' = main_pc /\ panicked' = panicked)]_vars

\* C19 witness: the input thread has stepped (a read failed, an event is
\* queued) and a navigation key has moved the position; a render is due.
C19_Witness ==
  /\ read_failed
  /\ chan # <<>>
  /\ main_pc = "render"
  /\ state.current_row >= 1
  /\ ~panicked

QuitKeys == {"q", "Esc"}

\* C21: render ordering.  One render happens after run has acquired the
\* terminal and before any event is handled; every handled resize event and
\* every handled non-quit key event leaves the main loop at its render call,
\* whose step draws the updated PagerState before the next event is dequeued;
\* a quit key is followed by no render.
C21_RenderOrdering ==
  /\ []((main_pc \in {"enable_raw", "enter_alt", "spawn", "initial_render"})
          => (handled_log = <<>> /\ rendered = {}))
  /\ []((main_pc = "recv" /\ ~panicked) => rendered = render_lines(state, header))
  /\ [][/\ ((Dequeued /\ Head(chan).kind = "resize") \/ KeyDequeued(KeyCodes \ QuitKeys))
            => (~panicked' /\ main_pc' = "render")
        /\ (main_pc \in {"initial_render", "render"} /\ main_pc' # main_pc)
            => (/\ state' = state
                /\ handled_log' = handled_log
                /\ \/ (main_pc' = "recv" /\ chan' = chan
                        /\ rendered' = render_lines(state, header))
                   \/ (main_pc' = "returned" /\ run_result' = "render_failed"))
        /\ KeyDequeued(QuitKeys) => (rendered' = rendered /\ main_pc' = "leave_alt")
        /\ (main_pc \in Stopped) => (rendered' = rendered /\ main_pc' \in Stopped)]_vars

\* The main loop waits for the next event with the screen drawn, and a further
\* page-down would not move current_row.
PagingDone ==
  /\ main_pc = "recv"
  /\ ~panicked
  /\ scroll_down(state, state.rows_per_page).st.current_row = state.current_row

\* C22: paging never hides content.  Starting at row 0 with a terminal of at
\* least two lines and pressing page-down until current_row stops changing,
\* every content line in [0, total_rows) has been drawn by some render, with
\* and without a header line.
C22_PagingShowsEveryLine ==
  PagingDone => drawn = {i \in 0..MaxRows : i < state.total_rows}

\* C23: the abandoned input thread ends with the first event it reads.  Once
\* run has returned, no event enters the channel and no event is handled any
\* more; the input thread, if it is still reading, can read an event, and the
\* step in which it reads one successfully ends the thread; a failed read is the
\* only other thing it can do.
C23_AbandonedReaderExits ==
  /\ []((main_pc = "returned" /\ reader = "reading")
          => ENABLED <<ReaderRead(Events, MaxQueue)>>_vars)
  /\ [][(main_pc = "returned")
          => (/\ main_pc' = "returned"
              /\ chan = <<>> /\ chan' = <<>>
              /\ state' = state /\ rendered' = rendered
              /\ ReaderRead(Events, MaxQueue) => reader' = "exited"
              /\ (reader' # reader) => (reader = "reading" /\ reader' = "exited")
              /\ (reader' = reader) => (~read_failed /\ read_failed'))]_vars

C23_Witness ==
  /\ main_pc = "returned"
  /\ run_result = "ok"
  /\ reader = "exited"
  /\ read_failed

====
